---- MODULE Spec2Model ----
(***************************************************************************)
(* GraphQL resolver layer of weaviate (package graphqlapi): the field      *)
(* resolvers built by InitSchema, resolveCrossRef with its host-address    *)
(* gate, the three root resolvers, and GetSubQuery.                        *)
(*                                                                         *)
(* Go values are records tagged with their dynamic type in field t, so a   *)
(* type assertion p.Source.(T) is a test on t.  A nil *SingleRef is Nil; a *)
(* nil *ObjectSubject held in an interface keeps its type and is           *)
(* NilObjectSubject; a *string is a sequence of length at most one.  An invocation of a resolver is recorded with what  *)
(* it returned, the connector calls it made and whether it panicked.       *)
(***************************************************************************)
EXTENDS FiniteSets, Integers, Sequences, TLC

VARIABLES
    hostAddress,   \* f.serverConfig.GetHostAddress()
    objType,       \* the schema object whose fields are being resolved
    source,        \* p.Source handed to those field resolvers
    resolved,      \* field name -> record of its resolver invocation
    calls,         \* connector call -> how often dbConnector received it
    panicked,      \* a resolver ended in a run-time panic
    fieldNodes,    \* how many nodes of the query select each field
    weaviateGraphQLSchema,  \* the schema field of the GraphQLSchema object
    got,           \* what the last GetGraphQLSchema call returned
    selections,    \* GetSubQuery: the selection list passed in
    collectQuery,  \* GetSubQuery: the string returned
    reparsed,      \* the selection list read back from collectQuery
    pc             \* position of the reprojection run

vars == <<hostAddress, objType, source, resolved, calls, panicked, fieldNodes,
          weaviateGraphQLSchema, got, selections, collectQuery, reparsed, pc>>

resolverVars == <<hostAddress, objType, source, resolved, calls, panicked, fieldNodes,
                  weaviateGraphQLSchema, got>>
subQueryVars == <<selections, collectQuery, reparsed, pc>>

----------------------------------------------------------------------------
(* Values *)

Nil == [t |-> "nil"]
Str(s) == [t |-> "string", s |-> s]
Float(n) == [t |-> "float64", n |-> n]
Bool(b) == [t |-> "bool", b |-> b]
StrList(l) == [t |-> "[]string", l |-> l]

Addresses == {"hostA:8080", "hostB:8080"}
Ids == {"id1", "missing", "broken"}
KindTags == {"Thing", "Action", "Key", "Widget"}

SingleRef(loc, type, id) ==
    [t |-> "*SingleRef", LocationURL |-> loc, Type |-> type, NrDollarCref |-> id]

\* The references an entity may carry: absent, without location, or located
\* at either address with every kind tag and identifier.
CrefValues ==
    {Nil}
    \cup {SingleRef(<<>>, k, "id1") : k \in KindTags}
    \cup {SingleRef(<<a>>, k, i) : a \in Addresses, k \in KindTags, i \in Ids}

KeyTokenGetResponse(id, parent) ==
    [t |-> "KeyTokenGetResponse", KeyID |-> id, Token |-> "secret-token",
     Email |-> "owner@example.org", IPOrigin |-> <<"10.0.0.1", "10.0.0.2">>,
     KeyExpiresUnix |-> 1700, Read |-> TRUE, Execute |-> FALSE,
     Write |-> TRUE, Delete |-> FALSE, Parent |-> parent]

ZeroKeyTokenGetResponse ==
    [t |-> "KeyTokenGetResponse", KeyID |-> "", Token |-> "", Email |-> "",
     IPOrigin |-> <<>>, KeyExpiresUnix |-> 0, Read |-> FALSE,
     Execute |-> FALSE, Write |-> FALSE, Delete |-> FALSE, Parent |-> Nil]

ThingGetResponse(id, key) ==
    [t |-> "ThingGetResponse", ThingID |-> id, AtContext |-> "http://schema.org",
     AtClass |-> "Building", CreationTimeUnix |-> 1500,
     LastUpdateTimeUnix |-> 1600, Key |-> key]

ZeroThingGetResponse ==
    [t |-> "ThingGetResponse", ThingID |-> "", AtContext |-> "", AtClass |-> "",
     CreationTimeUnix |-> 0, LastUpdateTimeUnix |-> 0, Key |-> Nil]

ObjectSubject(object, subject) ==
    [t |-> "*ObjectSubject", Object |-> object, Subject |-> subject]

\* (*models.ObjectSubject)(nil): a nil pointer that still has its type when
\* it is held in an interface value.
NilObjectSubject == [t |-> "*ObjectSubject", nil |-> TRUE]

ActionGetResponse(id, key, things) ==
    [t |-> "ActionGetResponse", ActionID |-> id, AtContext |-> "http://schema.org",
     AtClass |-> "OnOffAction", CreationTimeUnix |-> 1800,
     LastUpdateTimeUnix |-> 1900, Things |-> things, Key |-> key]

ZeroActionGetResponse ==
    [t |-> "ActionGetResponse", ActionID |-> "", AtContext |-> "", AtClass |-> "",
     CreationTimeUnix |-> 0, LastUpdateTimeUnix |-> 0, Things |-> NilObjectSubject,
     Key |-> Nil]

\* float64(x) of an int64: exact below 2^53, which covers the timestamps used.
Float64Of(n) == Float(n)

----------------------------------------------------------------------------
(* Errors *)

ErrorsNew(msg) == [t |-> "error", Message |-> msg]

LicenseMessage ==
    "a license for connection to another Weaviate-instance is required in order to resolve this query further"

\* fmt.Errorf("can't resolve the given type '%s'", cref.Type)
CantResolveMessage(type) == "can't resolve the given type '" \o type \o "'"

\* gqlerrors.NewError(message, nodes, stack, source, positions, origError)
GqlNewError(message, nodes, stack, origError) ==
    [t |-> "gqlerror", Message |-> message, Nodes |-> nodes,
     Stack |-> stack, OriginalError |-> origError]

----------------------------------------------------------------------------
(* The database connector: fetch by identifier, an entity or an error *)

NotFoundMessage == "not found"
ConnectorMessage == "connector failure"

ConnectorError(id) ==
    IF id = "missing" THEN ErrorsNew(NotFoundMessage)
    ELSE IF id = "broken" THEN ErrorsNew(ConnectorMessage)
    ELSE Nil

Call(op, id) == [op |-> op, id |-> id]
ConnectorOps == {"GetThing", "GetAction", "GetKey"}
AllCalls == {Call(op, id) : op \in ConnectorOps, id \in Ids}

\* Each operation fills the response it is handed and returns nil, or
\* leaves the response as it was and returns the error.
GetThing(UUID, thingResponse) ==
    IF ConnectorError(UUID) # Nil
    THEN [obj |-> thingResponse, err |-> ConnectorError(UUID)]
    ELSE [obj |-> ThingGetResponse(UUID, SingleRef(<<"hostA:8080">>, "Key", "id1")),
          err |-> Nil]

GetAction(UUID, actionResponse) ==
    IF ConnectorError(UUID) # Nil
    THEN [obj |-> actionResponse, err |-> ConnectorError(UUID)]
    ELSE [obj |-> ActionGetResponse(UUID,
                      SingleRef(<<"hostB:8080">>, "Key", "id1"),
                      ObjectSubject(SingleRef(<<"hostA:8080">>, "Thing", "id1"),
                                    SingleRef(<<"hostA:8080">>, "Thing", "missing"))),
          err |-> Nil]

GetKey(UUID, keyResponse) ==
    IF ConnectorError(UUID) # Nil
    THEN [obj |-> keyResponse, err |-> ConnectorError(UUID)]
    ELSE [obj |-> KeyTokenGetResponse(UUID, Nil), err |-> Nil]

----------------------------------------------------------------------------
(* Records of a resolver invocation *)

\* The resolver returned (value, err).
Returned(value, err, made, gate) ==
    [panic |-> FALSE, value |-> value, err |-> err, calls |-> made, gate |-> gate]

\* The resolver did not return: a nil dereference or a failed type assertion.
Panicked(made, gate) ==
    [panic |-> TRUE, value |-> Nil, err |-> Nil, calls |-> made, gate |-> gate]

Unresolved == [t |-> "unresolved"]

----------------------------------------------------------------------------
(* resolveCrossRef *)

\* p.Info.FieldASTs: the n field nodes of the query that select field name.
FieldASTs(name, n) == [i \in 1..n |-> [t |-> "*ast.Field", Name |-> name, Loc |-> i]]

\* gqlerrors.FieldASTsToNodeASTs: the same nodes as a slice of ast.Node.
FieldASTsToNodeASTs(fields) == [i \in 1..Len(fields) |-> fields[i]]

FederationGateOpen(host, locationURL) == "Allowed"

FederationGateInverted(host, locationURL) ==
    IF host = locationURL THEN "Denied" ELSE "Allowed"

\* The comparison of the node's own address with the reference's location.
FederationGate(host, locationURL) ==
    IF host # locationURL THEN "Denied" ELSE "Allowed"

\* Lines 636-648: a non-nil error is wrapped with the field nodes.
WrapError(err, fields) ==
    IF err # Nil
    THEN GqlNewError(err.Message, FieldASTsToNodeASTs(fields), err.Message, err)
    ELSE Nil

CrossRefReturned(err, obj, made, gate) ==
    [panic |-> FALSE, err |-> err, obj |-> obj, calls |-> made, gate |-> gate]

CrossRefPanicked(obj, gate) ==
    [panic |-> TRUE, err |-> Nil, obj |-> obj, calls |-> <<>>, gate |-> gate]

\* Lines 589-614: the HTTP request client.Do sends, as one entry of the I/O
\* an invocation performs.  The URL is "http://" + hostname + "/" + endpoint;
\* the API key header is set only for a non-empty key.
doRequest(hostname, endpoint, method, body, apiKey) ==
    [op |-> "doRequest",
     method |-> method,
     url |-> <<"http://", hostname, "/", endpoint>>,
     header |-> {<<"Content-Type", "application/json">>,
                 <<"Accept", "application/json">>}
                \cup (IF apiKey # "" THEN {<<"X-API-KEY", apiKey>>} ELSE {}),
     body |-> body]

DeniedResultForwarding(fields, objectLoaded) ==
    CrossRefReturned(WrapError(ErrorsNew(LicenseMessage), fields), objectLoaded,
                     <<doRequest("hostB:8080", "graphql", "POST", Nil, "")>>,
                     "Denied")

\* Line 620-622: the reference lives on another node.
DeniedResult(fields, objectLoaded) ==
    CrossRefReturned(WrapError(ErrorsNew(LicenseMessage), fields),
                     objectLoaded, <<>>, "Denied")

\* Line 626.  The type assertion on objectLoaded is evaluated before the call.
FetchThing(fields, cref, objectLoaded) ==
    IF objectLoaded.t # "ThingGetResponse"
    THEN CrossRefPanicked(objectLoaded, "Allowed")
    ELSE LET r == GetThing(cref.NrDollarCref, objectLoaded) IN
         CrossRefReturned(WrapError(r.err, fields), r.obj,
                          <<Call("GetThing", cref.NrDollarCref)>>, "Allowed")

\* Line 628.
FetchAction(fields, cref, objectLoaded) ==
    IF objectLoaded.t # "ActionGetResponse"
    THEN CrossRefPanicked(objectLoaded, "Allowed")
    ELSE LET r == GetAction(cref.NrDollarCref, objectLoaded) IN
         CrossRefReturned(WrapError(r.err, fields), r.obj,
                          <<Call("GetAction", cref.NrDollarCref)>>, "Allowed")

\* Line 630.
FetchKey(fields, cref, objectLoaded) ==
    IF objectLoaded.t # "KeyTokenGetResponse"
    THEN CrossRefPanicked(objectLoaded, "Allowed")
    ELSE LET r == GetKey(cref.NrDollarCref, objectLoaded) IN
         CrossRefReturned(WrapError(r.err, fields), r.obj,
                          <<Call("GetKey", cref.NrDollarCref)>>, "Allowed")

UnknownKindSilent(fields, cref, objectLoaded) ==
    CrossRefReturned(Nil, objectLoaded, <<>>, "Allowed")

\* Line 631-633: none of the three kinds.
UnknownKind(fields, cref, objectLoaded) ==
    CrossRefReturned(WrapError(ErrorsNew(CantResolveMessage(cref.Type)), fields),
                     objectLoaded, <<>>, "Allowed")

\* objectLoaded is the value the pointer argument points to; the result
\* carries the value it points to afterwards.
resolveCrossRef(host, fields, cref, objectLoaded) ==
    IF cref = Nil
    THEN CrossRefPanicked(objectLoaded, "none")     \* cref.LocationURL of a nil *SingleRef
    ELSE IF cref.LocationURL = <<>>
    THEN CrossRefPanicked(objectLoaded, "none")     \* *cref.LocationURL of a nil *string
    ELSE IF FederationGate(host, cref.LocationURL[1]) # "Allowed"
    THEN DeniedResult(fields, objectLoaded)
    ELSE IF cref.Type = "Thing" THEN FetchThing(fields, cref, objectLoaded)
    ELSE IF cref.Type = "Action" THEN FetchAction(fields, cref, objectLoaded)
    ELSE IF cref.Type = "Key" THEN FetchKey(fields, cref, objectLoaded)
    ELSE UnknownKind(fields, cref, objectLoaded)

\* The shape shared by the five reference resolvers: load into a zero
\* response, return it with the error (if err != nil) or with nil.
ReferenceResult(r) ==
    IF r.panic THEN Panicked(r.calls, r.gate)
    ELSE Returned(r.obj, r.err, r.calls, r.gate)

----------------------------------------------------------------------------
(* Field resolvers; p is [Source, FieldASTs, Args] *)

KeyFields == {"uuid", "token", "email", "ipOrigin", "keyExpiresUnix",
              "read", "execute", "write", "delete", "parent"}
ThingFields == {"atContext", "atClass", "creationTimeUnix",
                "lastUpdateTimeUnix", "uuid", "key"}
ObjectSubjectFields == {"object", "subject"}
ActionFields == {"atContext", "atClass", "creationTimeUnix",
                 "lastUpdateTimeUnix", "uuid", "things", "key"}
QueryFields == {"thing", "action", "key"}

IsKey(v) == v.t = "KeyTokenGetResponse"
IsThing(v) == v.t = "ThingGetResponse"
IsAction(v) == v.t = "ActionGetResponse"
IsObjectSubject(v) == v.t = "*ObjectSubject"

Direct(value) == Returned(value, Nil, <<>>, "none")

keyTypeParentGated(host, p) ==
    IF IsKey(p.Source)
    THEN ReferenceResult(resolveCrossRef(host, p.FieldASTs, p.Source.Parent,
                                         ZeroKeyTokenGetResponse))
    ELSE ReferenceResult(DeniedResult(p.FieldASTs, ZeroKeyTokenGetResponse))

keyTypeParent(host, p) ==
    IF IsKey(p.Source)
    THEN ReferenceResult(resolveCrossRef(host, p.FieldASTs, p.Source.Parent,
                                         ZeroKeyTokenGetResponse))
    ELSE Direct(ZeroKeyTokenGetResponse)

keyType(field, host, p) ==
    IF field = "parent" THEN keyTypeParent(host, p)
    ELSE IF ~IsKey(p.Source) THEN Direct(Nil)
    ELSE CASE field = "uuid" -> Direct(Str(p.Source.KeyID))
           [] field = "token" -> Direct(Str(p.Source.Token))
           [] field = "email" -> Direct(Str(p.Source.Email))
           [] field = "ipOrigin" -> Direct(StrList(p.Source.IPOrigin))
           [] field = "keyExpiresUnix" -> Direct(Float64Of(p.Source.KeyExpiresUnix))
           [] field = "read" -> Direct(Bool(p.Source.Read))
           [] field = "execute" -> Direct(Bool(p.Source.Execute))
           [] field = "write" -> Direct(Bool(p.Source.Write))
           [] field = "delete" -> Direct(Bool(p.Source.Delete))

thingTypeKey(host, p) ==
    IF IsThing(p.Source)
    THEN ReferenceResult(resolveCrossRef(host, p.FieldASTs, p.Source.Key,
                                         ZeroKeyTokenGetResponse))
    ELSE Direct(ZeroKeyTokenGetResponse)

thingType(field, host, p) ==
    IF field = "key" THEN thingTypeKey(host, p)
    ELSE IF ~IsThing(p.Source) THEN Direct(Nil)
    ELSE CASE field = "atContext" -> Direct(Str(p.Source.AtContext))
           [] field = "atClass" -> Direct(Str(p.Source.AtClass))
           [] field = "creationTimeUnix" -> Direct(Float64Of(p.Source.CreationTimeUnix))
           [] field = "lastUpdateTimeUnix" -> Direct(Float64Of(p.Source.LastUpdateTimeUnix))
           [] field = "uuid" -> Direct(Str(p.Source.ThingID))

objectSubjectType(field, host, p) ==
    IF IsObjectSubject(p.Source) /\ p.Source = NilObjectSubject
    THEN Panicked(<<>>, "none")      \* ref.Object / ref.Subject of a nil ref
    ELSE IF IsObjectSubject(p.Source)
    THEN CASE field = "object" ->
                ReferenceResult(resolveCrossRef(host, p.FieldASTs, p.Source.Object,
                                                ZeroThingGetResponse))
           [] field = "subject" ->
                ReferenceResult(resolveCrossRef(host, p.FieldASTs, p.Source.Subject,
                                                ZeroThingGetResponse))
    ELSE Direct(ZeroThingGetResponse)

actionTypeKey(host, p) ==
    IF IsAction(p.Source)
    THEN ReferenceResult(resolveCrossRef(host, p.FieldASTs, p.Source.Key,
                                         ZeroKeyTokenGetResponse))
    ELSE Direct(ZeroKeyTokenGetResponse)

actionTypeSwapped(field, host, p) ==
    IF field = "key" THEN actionTypeKey(host, p)
    ELSE IF ~IsAction(p.Source) THEN Direct(Nil)
    ELSE CASE field = "atContext" -> Direct(Str(p.Source.AtContext))
           [] field = "atClass" -> Direct(Str(p.Source.AtContext))
           [] field = "creationTimeUnix" -> Direct(Float64Of(p.Source.CreationTimeUnix))
           [] field = "lastUpdateTimeUnix" -> Direct(Float64Of(p.Source.LastUpdateTimeUnix))
           [] field = "uuid" -> Direct(Str(p.Source.ActionID))
           [] field = "things" -> Direct(p.Source.Things)

actionType(field, host, p) ==
    IF field = "key" THEN actionTypeKey(host, p)
    ELSE IF ~IsAction(p.Source) THEN Direct(Nil)
    ELSE CASE field = "atContext" -> Direct(Str(p.Source.AtContext))
           [] field = "atClass" -> Direct(Str(p.Source.AtClass))
           [] field = "creationTimeUnix" -> Direct(Float64Of(p.Source.CreationTimeUnix))
           [] field = "lastUpdateTimeUnix" -> Direct(Float64Of(p.Source.LastUpdateTimeUnix))
           [] field = "uuid" -> Direct(Str(p.Source.ActionID))
           [] field = "things" -> Direct(p.Source.Things)

\* The root resolvers return the response together with the connector's
\* error, unwrapped.
RootResultNilOnError(r, made) ==
    IF r.err # Nil THEN Returned(Nil, r.err, made, "none")
    ELSE Returned(r.obj, r.err, made, "none")

RootResult(r, made) == Returned(r.obj, r.err, made, "none")

queryType(field, p) ==
    CASE field = "thing" ->
            RootResult(GetThing(p.Args.id, ZeroThingGetResponse),
                       <<Call("GetThing", p.Args.id)>>)
      [] field = "action" ->
            RootResult(GetAction(p.Args.id,
                           [ZeroActionGetResponse EXCEPT !.Things = ObjectSubject(Nil, Nil)]),
                       <<Call("GetAction", p.Args.id)>>)
      [] field = "key" ->
            RootResult(GetKey(p.Args.id, ZeroKeyTokenGetResponse),
                       <<Call("GetKey", p.Args.id)>>)

----------------------------------------------------------------------------
(* Resolution of the fields of one object *)

MaxNodes == 2

ObjTypes == {"Query", "Key", "Thing", "ObjectSubject", "Action"}

FieldsOf(type) ==
    CASE type = "Query" -> QueryFields
      [] type = "Key" -> KeyFields
      [] type = "Thing" -> ThingFields
      [] type = "ObjectSubject" -> ObjectSubjectFields
      [] type = "Action" -> ActionFields

KeySources == {KeyTokenGetResponse("id1", c) : c \in CrefValues}
ThingSources == {ThingGetResponse("id1", c) : c \in CrefValues}
ObjectSubjectSources == {ObjectSubject(o, s) : o, s \in CrefValues}
ActionSources ==
    {ActionGetResponse("id1", c, th) :
        c \in CrefValues,
        th \in {NilObjectSubject, ObjectSubject(Nil, Nil),
                ObjectSubject(SingleRef(<<"hostA:8080">>, "Thing", "id1"),
                              SingleRef(<<"hostB:8080">>, "Thing", "id1"))}}

\* One value of every other shape, for a resolver wired to the wrong source.
OtherShapes ==
    {Nil, Str("id1"), KeyTokenGetResponse("id1", Nil),
     ThingGetResponse("id1", SingleRef(<<"hostA:8080">>, "Key", "id1")),
     ActionGetResponse("id1", SingleRef(<<"hostA:8080">>, "Key", "id1"),
                       NilObjectSubject),
     ObjectSubject(SingleRef(<<"hostA:8080">>, "Thing", "id1"),
                   SingleRef(<<"hostA:8080">>, "Thing", "id1"))}

SourcesOf(type) ==
    CASE type = "Query" -> {Nil}
      [] type = "Key" -> KeySources \cup {v \in OtherShapes : ~IsKey(v)}
      [] type = "Thing" -> ThingSources \cup {v \in OtherShapes : ~IsThing(v)}
      [] type = "ObjectSubject" ->
            ObjectSubjectSources \cup {NilObjectSubject}
            \cup {v \in OtherShapes : ~IsObjectSubject(v)}
      [] type = "Action" -> ActionSources \cup {v \in OtherShapes : ~IsAction(v)}

NoArgs == [id |-> ""]

Params(field, args) ==
    [Source |-> source, FieldASTs |-> FieldASTs(field, fieldNodes), Args |-> args]

NoCalls == [c \in AllCalls |-> 0]

\* The calls of one invocation added to the connector's tally.
Tally(made) ==
    [c \in AllCalls |->
        calls[c] + Cardinality({i \in 1..Len(made) : made[i] = c})]

\* The engine has called the resolver of field with p and the resolver has
\* ended with r.
Record(field, p, r) ==
    /\ resolved' = [resolved EXCEPT ![field] = [p |-> p, r |-> r]]
    /\ calls' = Tally(r.calls)
    /\ panicked' = r.panic
    /\ UNCHANGED <<hostAddress, objType, source, fieldNodes, weaviateGraphQLSchema, got>>
    /\ UNCHANGED subQueryVars

\* graphql.Schema{}, and the schema graphql.NewSchema builds around queryType.
ZeroSchema == [t |-> "graphql.Schema", Query |-> ""]
BuiltSchema == [t |-> "graphql.Schema", Query |-> "Query"]

NotInitializedMessage ==
    "schema is not initialized, perhaps you forget to run 'InitSchema'"

\* &f.weaviateGraphQLSchema: the address of a field of the receiver.
AddressOfSchemaField == [t |-> "*graphql.Schema"]

NotCalled == [t |-> "not called"]

\* Lines 54-61, with schema the current value of f.weaviateGraphQLSchema.
GetGraphQLSchemaResult(schema) ==
    IF AddressOfSchemaField = Nil
    THEN [schema |-> ZeroSchema, err |-> ErrorsNew(NotInitializedMessage),
          initialized |-> schema # ZeroSchema]
    ELSE [schema |-> schema, err |-> Nil, initialized |-> schema # ZeroSchema]

\* The query engine runs the resolvers of the schema it was served.
SchemaServed == got # NotCalled /\ got.schema = BuiltSchema

Init ==
    /\ hostAddress \in Addresses
    /\ objType \in ObjTypes
    /\ source \in SourcesOf(objType)
    /\ fieldNodes \in 1..MaxNodes
    /\ resolved = [f \in FieldsOf(objType) |-> Unresolved]
    /\ calls = NoCalls
    /\ panicked = FALSE
    /\ weaviateGraphQLSchema = ZeroSchema
    /\ got = NotCalled
    /\ selections = <<>>
    /\ collectQuery = <<>>
    /\ reparsed = [ok |-> FALSE, sels |-> <<>>]
    /\ pc = "idle"

\* InitSchema builds the types and stores the schema; graphql.NewSchema
\* accepts them, so the error returned is nil.
InitSchema ==
    /\ weaviateGraphQLSchema = ZeroSchema
    /\ weaviateGraphQLSchema' = BuiltSchema
    /\ UNCHANGED <<hostAddress, objType, source, resolved, calls, panicked,
                   fieldNodes, got>>
    /\ UNCHANGED subQueryVars

GetGraphQLSchema ==
    /\ got' = GetGraphQLSchemaResult(weaviateGraphQLSchema)
    /\ UNCHANGED <<hostAddress, objType, source, resolved, calls, panicked,
                   fieldNodes, weaviateGraphQLSchema>>
    /\ UNCHANGED subQueryVars

ResolveQueryField ==
    /\ objType = "Query"
    /\ SchemaServed
    /\ ~panicked
    /\ \E field \in QueryFields, id \in Ids :
        /\ resolved[field] = Unresolved
        /\ LET p == Params(field, [id |-> id]) IN
           Record(field, p, queryType(field, p))

ResolveKeyField ==
    /\ objType = "Key"
    /\ SchemaServed
    /\ ~panicked
    /\ \E field \in KeyFields :
        /\ resolved[field] = Unresolved
        /\ LET p == Params(field, NoArgs) IN
           Record(field, p, keyType(field, hostAddress, p))

ResolveThingField ==
    /\ objType = "Thing"
    /\ SchemaServed
    /\ ~panicked
    /\ \E field \in ThingFields :
        /\ resolved[field] = Unresolved
        /\ LET p == Params(field, NoArgs) IN
           Record(field, p, thingType(field, hostAddress, p))

ResolveObjectSubjectField ==
    /\ objType = "ObjectSubject"
    /\ SchemaServed
    /\ ~panicked
    /\ \E field \in ObjectSubjectFields :
        /\ resolved[field] = Unresolved
        /\ LET p == Params(field, NoArgs) IN
           Record(field, p, objectSubjectType(field, hostAddress, p))

ResolveActionField ==
    /\ objType = "Action"
    /\ SchemaServed
    /\ ~panicked
    /\ \E field \in ActionFields :
        /\ resolved[field] = Unresolved
        /\ LET p == Params(field, NoArgs) IN
           Record(field, p, actionType(field, hostAddress, p))

Next ==
    \/ InitSchema
    \/ GetGraphQLSchema
    \/ ResolveQueryField
    \/ ResolveKeyField
    \/ ResolveThingField
    \/ ResolveObjectSubjectField
    \/ ResolveActionField

Spec == Init /\ [][Next]_vars

----------------------------------------------------------------------------
(* GetSubQuery *)

\* A Go string is the sequence of its characters.
NameUuid == <<"u", "u", "i", "d">>
NameKey == <<"k", "e", "y">>
NameToken == <<"t", "o", "k", "e", "n">>
FieldNames == {NameUuid, NameKey, NameToken}

MaxFields == 4

\* *ast.Field: Alias (Nil, or its Value), Name.Value and SelectionSet (Nil,
\* or its Selections).
Field(alias, name, selectionSet) ==
    [Alias |-> alias, Name |-> name, SelectionSet |-> selectionSet]
LeafField(name) == Field(Nil, name, Nil)
NestedField(name, sels) == Field(Nil, name, [Selections |-> sels])

\* The alias and name a field node may carry: each name plain, and one
\* aliased field (a: uuid).
FieldHeads ==
    {<<Nil, name>> : name \in FieldNames} \cup {<<[Value |-> <<"a">>], NameUuid>>}

\* The selection lists a parsed query can hold, by their number of field
\* nodes.  The parser never yields a selection set without selections, so
\* a nested list has at least one field.
RECURSIVE SelectionsOfSize(_), FieldsOfSize(_)
FieldsOfSize(k) ==
    IF k = 1 THEN {Field(head[1], head[2], Nil) : head \in FieldHeads}
    ELSE {Field(head[1], head[2], [Selections |-> sels]) :
             head \in FieldHeads, sels \in SelectionsOfSize(k - 1)}

SelectionsOfSize(n) ==
    IF n = 0 THEN {<<>>}
    ELSE UNION {{<<field>> \o rest :
                    field \in FieldsOfSize(k), rest \in SelectionsOfSize(n - k)} :
                k \in 1..n}

SelectionLists == UNION {SelectionsOfSize(n) : n \in 0..MaxFields}

RECURSIVE GetSubQueryJoined(_)
GetSubQueryJoined(sels) ==
    IF sels = <<>> THEN <<>>
    ELSE (IF Head(sels).SelectionSet # Nil
          THEN Head(sels).Name \o <<" ", "{", " ">>
               \o GetSubQueryJoined(Head(sels).SelectionSet.Selections)
               \o <<" ", "}", " ">>
          ELSE Head(sels).Name)
         \o GetSubQueryJoined(Tail(sels))

RECURSIVE GetSubQueryDedup(_, _)
GetSubQueryDedup(sels, seen) ==
    IF sels = <<>> THEN <<>>
    ELSE IF Head(sels).Name \in seen THEN GetSubQueryDedup(Tail(sels), seen)
    ELSE (IF Head(sels).SelectionSet # Nil
          THEN <<" ">> \o Head(sels).Name \o <<" ", "{", " ">>
               \o GetSubQueryDedup(Head(sels).SelectionSet.Selections, {})
               \o <<" ", "}", " ">>
          ELSE <<" ">> \o Head(sels).Name)
         \o GetSubQueryDedup(Tail(sels), seen \cup {Head(sels).Name})

GetSubQueryUnique(sels) == GetSubQueryDedup(sels, {})

\* The loop of lines 575-582: i is the position of the range loop and
\* collected is collectQuery before the i-th selection.
RECURSIVE GetSubQuery(_), GetSubQueryLoop(_, _, _)
GetSubQueryLoop(sels, i, collected) ==
    IF i > Len(sels) THEN collected
    ELSE LET named == collected \o <<" ">> \o sels[i].Name IN
         IF sels[i].SelectionSet # Nil
         THEN GetSubQueryLoop(sels, i + 1,
                  named \o <<" ", "{", " ">>
                        \o GetSubQuery(sels[i].SelectionSet.Selections)
                        \o <<" ", "}", " ">>)
         ELSE GetSubQueryLoop(sels, i + 1, named)

GetSubQuery(sels) == GetSubQueryLoop(sels, 1, <<>>)

\* Reading a field list back: the lexer skips white space and commas and
\* splits names from braces; a field is a name, optionally followed by a
\* brace-delimited list of at least one field.
Ignored == {" ", ",", "\t", "\n"}
Punctuators == {"{", "}"}

RECURSIVE Lex(_, _, _, _)
Lex(chars, i, name, tokens) ==
    LET flushed == IF name = <<>> THEN tokens ELSE Append(tokens, name) IN
    IF i > Len(chars) THEN flushed
    ELSE IF chars[i] \in Ignored THEN Lex(chars, i + 1, <<>>, flushed)
    ELSE IF chars[i] \in Punctuators
         THEN Lex(chars, i + 1, <<>>, Append(flushed, <<chars[i]>>))
    ELSE Lex(chars, i + 1, Append(name, chars[i]), tokens)

Tokenize(chars) == Lex(chars, 1, <<>>, <<>>)

ParseFailed(i) == [ok |-> FALSE, sels |-> <<>>, next |-> i]

\* The fields from token i up to the closing brace or the end.
RECURSIVE ParseSelections(_, _)
ParseSelections(tokens, i) ==
    IF i > Len(tokens) \/ tokens[i] = <<"}">>
    THEN [ok |-> TRUE, sels |-> <<>>, next |-> i]
    ELSE IF tokens[i] = <<"{">> THEN ParseFailed(i)
    ELSE IF i + 1 <= Len(tokens) /\ tokens[i + 1] = <<"{">>
    THEN LET inner == ParseSelections(tokens, i + 2) IN
         IF ~inner.ok \/ inner.sels = <<>> \/ inner.next > Len(tokens)
         THEN ParseFailed(i)
         ELSE LET rest == ParseSelections(tokens, inner.next + 1) IN
              [ok |-> rest.ok,
               sels |-> <<NestedField(tokens[i], inner.sels)>> \o rest.sels,
               next |-> rest.next]
    ELSE LET rest == ParseSelections(tokens, i + 1) IN
         [ok |-> rest.ok,
          sels |-> <<LeafField(tokens[i])>> \o rest.sels,
          next |-> rest.next]

Parse(chars) ==
    LET tokens == Tokenize(chars)
        parsed == ParseSelections(tokens, 1)
    IN  [ok |-> parsed.ok /\ parsed.next = Len(tokens) + 1, sels |-> parsed.sels]

InitSubQuery ==
    /\ hostAddress = "hostA:8080"
    /\ objType = "Query"
    /\ source = Nil
    /\ fieldNodes = 1
    /\ resolved = [f \in QueryFields |-> Unresolved]
    /\ calls = NoCalls
    /\ panicked = FALSE
    /\ weaviateGraphQLSchema = ZeroSchema
    /\ got = NotCalled
    /\ selections \in SelectionLists
    /\ collectQuery = <<>>
    /\ reparsed = [ok |-> FALSE, sels |-> <<>>]
    /\ pc = "start"

\* collectQuery := GetSubQuery(selections)
Reproject ==
    /\ pc = "start"
    /\ collectQuery' = GetSubQuery(selections)
    /\ pc' = "projected"
    /\ UNCHANGED <<selections, reparsed>>
    /\ UNCHANGED resolverVars

\* The string is parsed again as a field list.
Reparse ==
    /\ pc = "projected"
    /\ reparsed' = Parse(collectQuery)
    /\ pc' = "reparsed"
    /\ UNCHANGED <<selections, collectQuery>>
    /\ UNCHANGED resolverVars

NextSubQuery == Reproject \/ Reparse

SpecSubQuery == InitSubQuery /\ [][NextSubQuery]_vars

----------------------------------------------------------------------------
(* Properties of the resolvers *)

ResolvedFields == {f \in DOMAIN resolved : resolved[f] # Unresolved}

\* The invocations that reached resolveCrossRef: a reference field whose
\* source has the shape its resolver expects and, for a pointer, is not nil.
CrossRefFields ==
    CASE objType = "Key" /\ IsKey(source) -> ResolvedFields \cap {"parent"}
      [] objType = "Thing" /\ IsThing(source) -> ResolvedFields \cap {"key"}
      [] objType = "Action" /\ IsAction(source) -> ResolvedFields \cap {"key"}
      [] objType = "ObjectSubject" /\ IsObjectSubject(source)
                                   /\ source # NilObjectSubject ->
            ResolvedFields \cap {"object", "subject"}
      [] OTHER -> {}

\* The reference that invocation passed.
CrefOf(f) ==
    CASE objType = "Key" -> source.Parent
      [] objType = "Thing" -> source.Key
      [] objType = "Action" -> source.Key
      [] objType = "ObjectSubject" /\ f = "object" -> source.Object
      [] objType = "ObjectSubject" /\ f = "subject" -> source.Subject

HasOrigin(cref) == cref # Nil /\ cref.LocationURL # <<>>
IsRemote(cref) == HasOrigin(cref) /\ cref.LocationURL[1] # hostAddress
IsLocal(cref) == HasOrigin(cref) /\ cref.LocationURL[1] = hostAddress
RecognizedKinds == {"Thing", "Action", "Key"}

\* The connector calls made by the invocations of the given fields.
CallsMadeBy(fields) ==
    [c \in AllCalls |->
        Cardinality({f \in fields : \E i \in 1..Len(resolved[f].r.calls) :
                                        resolved[f].r.calls[i] = c})]

OpOfKind(kind) ==
    CASE kind = "Thing" -> "GetThing"
      [] kind = "Action" -> "GetAction"
      [] kind = "Key" -> "GetKey"

\* C1: a reference whose declared origin differs from the host address is
\* answered with the license error attached to the field nodes being
\* resolved, and no connector operation is invoked, whatever its kind tag.
FailClosed ==
    \A f \in CrossRefFields :
        IsRemote(CrefOf(f)) =>
            LET r == resolved[f].r IN
            /\ ~r.panic
            /\ r.err # Nil
            /\ r.err.t = "gqlerror"
            /\ r.err.Message = LicenseMessage
            /\ r.err.Nodes = FieldASTs(f, fieldNodes)
            /\ r.calls = <<>>
            /\ calls = CallsMadeBy(ResolvedFields \ {f})

FailClosedWitness ==
    \E f, g \in CrossRefFields :
        /\ IsRemote(CrefOf(f))
        /\ CrefOf(f).Type = "Widget"
        /\ resolved[f].r.err # Nil
        /\ Len(resolved[f].r.err.Nodes) = 2
        /\ IsLocal(CrefOf(g))
        /\ resolved[g].r.calls # <<>>

\* C2: for an origin string and a host address the gate yields Allowed when
\* they are equal and Denied otherwise, and nothing else.
GateTotality ==
    \A f \in CrossRefFields :
        HasOrigin(CrefOf(f)) =>
            LET gate == resolved[f].r.gate IN
            /\ gate \in {"Allowed", "Denied"}
            /\ gate = "Allowed" <=> CrefOf(f).LocationURL[1] = hostAddress
            /\ gate = "Denied" <=> CrefOf(f).LocationURL[1] # hostAddress

GateTotalityWitness ==
    \E f, g \in CrossRefFields :
        /\ resolved[f].r.gate = "Allowed"
        /\ resolved[g].r.gate = "Denied"

\* C3 (as claimed): a local reference with a kind tag among Thing, Action,
\* Key makes resolveCrossRef invoke the connector operation of that kind
\* with the reference's identifier, and no other.
KindDispatch ==
    \A f \in CrossRefFields :
        IsLocal(CrefOf(f)) /\ CrefOf(f).Type \in RecognizedKinds =>
            resolved[f].r.calls =
                <<Call(OpOfKind(CrefOf(f).Type), CrefOf(f).NrDollarCref)>>

\* C4 (as claimed): every resolver invocation ends by returning a value
\* and/or an error, never in a panic.
NoPanic ==
    /\ ~panicked
    /\ \A f \in ResolvedFields : ~resolved[f].r.panic

\* C5: a local reference whose kind tag is none of Thing, Action, Key gets
\* the "can't resolve the given type" error on its field nodes, the zero
\* response as value, and no connector operation is invoked.
UnrecognizedKind ==
    \A f \in CrossRefFields :
        IsLocal(CrefOf(f)) /\ CrefOf(f).Type \notin RecognizedKinds =>
            LET r == resolved[f].r IN
            /\ ~r.panic
            /\ r.err # Nil
            /\ r.err.Message = CantResolveMessage(CrefOf(f).Type)
            /\ r.err.Nodes = FieldASTs(f, fieldNodes)
            /\ r.calls = <<>>
            /\ r.value \in {ZeroKeyTokenGetResponse, ZeroThingGetResponse}

UnrecognizedKindWitness ==
    \E f \in CrossRefFields :
        /\ IsLocal(CrefOf(f))
        /\ CrefOf(f).Type = "Widget"
        /\ resolved[f].r.err # Nil
        /\ resolved[f].r.err.Message = "can't resolve the given type 'Widget'"

\* C6 (as claimed): a local reference with a recognized kind resolves to
\* what the connector returns for its identifier: the entity and no error,
\* or the connector's message in an error attached to the field nodes.
ConnectorPropagation ==
    \A f \in CrossRefFields :
        IsLocal(CrefOf(f)) /\ CrefOf(f).Type \in RecognizedKinds =>
            LET r == resolved[f].r
                id == CrefOf(f).NrDollarCref
            IN  /\ ~r.panic
                /\ ConnectorError(id) = Nil =>
                      /\ r.err = Nil
                      /\ r.value # Nil
                /\ ConnectorError(id) # Nil =>
                      /\ r.err # Nil
                      /\ r.err.Message = ConnectorError(id).Message
                      /\ r.err.Nodes = FieldASTs(f, fieldNodes)


\* What a direct field of the source holds, read off the source itself.
OwnValue(f) ==
    CASE objType = "Action" /\ f = "atContext" -> Str(source.AtContext)
      [] objType = "Action" /\ f = "atClass" -> Str(source.AtClass)
      [] objType = "Action" /\ f = "creationTimeUnix" -> Float(source.CreationTimeUnix)
      [] objType = "Action" /\ f = "lastUpdateTimeUnix" -> Float(source.LastUpdateTimeUnix)
      [] objType = "Action" /\ f = "uuid" -> Str(source.ActionID)
      [] objType = "Action" /\ f = "things" -> source.Things
      [] objType = "Thing" /\ f = "atContext" -> Str(source.AtContext)
      [] objType = "Thing" /\ f = "atClass" -> Str(source.AtClass)
      [] objType = "Thing" /\ f = "creationTimeUnix" -> Float(source.CreationTimeUnix)
      [] objType = "Thing" /\ f = "lastUpdateTimeUnix" -> Float(source.LastUpdateTimeUnix)
      [] objType = "Thing" /\ f = "uuid" -> Str(source.ThingID)
      [] objType = "Key" /\ f = "uuid" -> Str(source.KeyID)
      [] objType = "Key" /\ f = "token" -> Str(source.Token)
      [] objType = "Key" /\ f = "email" -> Str(source.Email)
      [] objType = "Key" /\ f = "ipOrigin" -> StrList(source.IPOrigin)
      [] objType = "Key" /\ f = "keyExpiresUnix" -> Float(source.KeyExpiresUnix)
      [] objType = "Key" /\ f = "read" -> Bool(source.Read)
      [] objType = "Key" /\ f = "execute" -> Bool(source.Execute)
      [] objType = "Key" /\ f = "write" -> Bool(source.Write)
      [] objType = "Key" /\ f = "delete" -> Bool(source.Delete)

\* The direct fields resolved so far on a source of the expected shape.
DirectFields ==
    CASE objType = "Key" /\ IsKey(source) -> ResolvedFields \ {"parent"}
      [] objType = "Thing" /\ IsThing(source) -> ResolvedFields \ {"key"}
      [] objType = "Action" /\ IsAction(source) -> ResolvedFields \ {"key"}
      [] OTHER -> {}

\* A sibling has failed with an error (denial or connector error).
SiblingFailed(z) ==
    \E y \in ResolvedFields \ {z} : resolved[y].r.err # Nil

\* What a reference field that returned holds, read off its own reference.
OwnReference(z) ==
    LET r == resolved[z].r
        cref == CrefOf(z)
    IN  IF IsRemote(cref) THEN r.err # Nil /\ r.err.Message = LicenseMessage
        ELSE IF cref.Type \notin RecognizedKinds THEN r.err # Nil
        ELSE IF ConnectorError(cref.NrDollarCref) # Nil
             THEN r.err # Nil /\ r.err.Message = ConnectorError(cref.NrDollarCref).Message
             ELSE r.err = Nil /\ r.value.t \in {"KeyTokenGetResponse", "ThingGetResponse"}
                             /\ r.calls = <<Call(OpOfKind(cref.Type), cref.NrDollarCref)>>

FieldsKeepOwnValue ==
    /\ \A z \in DirectFields :
          resolved[z].r = [panic |-> FALSE, value |-> OwnValue(z), err |-> Nil,
                           calls |-> <<>>, gate |-> "none"]
    /\ \A z \in CrossRefFields : ~resolved[z].r.panic => OwnReference(z)

ResolvedStaysResolved ==
    \A z \in DOMAIN resolved :
        resolved[z] # Unresolved => resolved'[z] = resolved[z]

\* C7: in every order of the sibling resolvers of one entity a field has the
\* value it has on its own, taken from the source (direct fields) or from
\* its own reference (reference fields), also after a sibling failed, and a
\* later sibling does not change it.
FieldIndependence ==
    /\ []FieldsKeepOwnValue
    /\ [][ResolvedStaysResolved]_vars

FieldIndependenceWitness ==
    /\ objType = "Action"
    /\ IsAction(source)
    /\ {"key", "atClass", "atContext", "uuid"} \subseteq ResolvedFields
    /\ resolved["key"].r.err # Nil
    /\ resolved["key"].r.err.Message = LicenseMessage
    /\ resolved["atClass"].r.value = Str("OnOffAction")
    /\ resolved["atContext"].r.value = Str("http://schema.org")
    /\ resolved["uuid"].r.value = Str("id1")
    /\ SiblingFailed("uuid")

RootFields == IF objType = "Query" THEN ResolvedFields ELSE {}

RootOp(f) ==
    CASE f = "thing" -> "GetThing"
      [] f = "action" -> "GetAction"
      [] f = "key" -> "GetKey"

RootType(f) ==
    CASE f = "thing" -> "ThingGetResponse"
      [] f = "action" -> "ActionGetResponse"
      [] f = "key" -> "KeyTokenGetResponse"

RootUuid(f, v) ==
    CASE f = "thing" -> v.ThingID
      [] f = "action" -> v.ActionID
      [] f = "key" -> v.KeyID

RootFetchesOnce ==
    /\ \A f \in RootFields :
          LET r == resolved[f].r
              id == resolved[f].p.Args.id
          IN  /\ ~r.panic
              /\ r.calls = <<Call(RootOp(f), id)>>
              /\ r.value.t = RootType(f)
              /\ r.err = ConnectorError(id)
              /\ r.err = Nil => RootUuid(f, r.value) = id
              /\ r.err # Nil => RootUuid(f, r.value) = ""
    /\ objType = "Query" => calls = CallsMadeBy(RootFields)

\* C10: each root field makes one connector fetch, of its own kind and with
\* its id argument, and returns the response together with the connector's
\* error; resolving another root field leaves its result as it was.
RootDispatch ==
    /\ []RootFetchesOnce
    /\ [][objType = "Query" => ResolvedStaysResolved]_vars

RootDispatchWitness ==
    /\ objType = "Query"
    /\ RootFields = QueryFields
    /\ resolved["thing"].r.err # Nil
    /\ resolved["thing"].r.value = ZeroThingGetResponse
    /\ resolved["thing"].p.Args.id = "missing"
    /\ resolved["action"].r.err = Nil
    /\ resolved["key"].r.err = Nil
    /\ resolved["key"].r.value.KeyID = "id1"


\* The resolutions that are to fetch: every root field, and every reference
\* field whose reference is local and of a recognized kind.
FetchingFields ==
    RootFields
    \cup {f \in CrossRefFields :
             IsLocal(CrefOf(f)) /\ CrefOf(f).Type \in RecognizedKinds}

\* C11 (as claimed): every root fetch and every resolution of a local
\* reference of a recognized kind issues exactly one connector call,
\* whether it succeeds or fails, and the connector has received one call
\* per such resolution: N resolutions of one identifier are N calls.
NoRetryNoCache ==
    /\ \A f \in FetchingFields : Len(resolved[f].r.calls) = 1
    /\ \A c \in AllCalls :
          calls[c] = Cardinality({f \in FetchingFields :
                                     c = Call(IF f \in RootFields THEN RootOp(f)
                                              ELSE OpOfKind(CrefOf(f).Type),
                                              IF f \in RootFields THEN resolved[f].p.Args.id
                                              ELSE CrefOf(f).NrDollarCref)})

\* C12 (as claimed): GetGraphQLSchema returns the schema only if it is
\* set; called before InitSchema has run it returns the "schema is not
\* initialized" error, not a schema with a nil error.
InitializationOrder ==
    got # NotCalled =>
        IF got.initialized
        THEN got.err = Nil /\ got.schema = BuiltSchema
        ELSE got.err = ErrorsNew(NotInitializedMessage)

\* The entity shape the resolvers of the focused type expect as source: the
\* dynamic type their assertion on p.Source tests.  A nil *ObjectSubject has
\* the expected shape; the resolver enters its body and dereferences it.
ExpectedShape ==
    CASE objType = "Key" -> "KeyTokenGetResponse"
      [] objType = "Thing" -> "ThingGetResponse"
      [] objType = "Action" -> "ActionGetResponse"
      [] objType = "ObjectSubject" -> "*ObjectSubject"
      [] OTHER -> source.t

MalformedSource == source.t # ExpectedShape

ReferenceFieldNames ==
    CASE objType = "Key" -> {"parent"}
      [] objType \in {"Thing", "Action"} -> {"key"}
      [] objType = "ObjectSubject" -> {"object", "subject"}
      [] OTHER -> {}

\* The empty value of a field: the zero response of a reference field, nil
\* for the others.
EmptyValue(f) ==
    IF f \notin ReferenceFieldNames THEN Nil
    ELSE IF objType = "ObjectSubject" THEN ZeroThingGetResponse
    ELSE ZeroKeyTokenGetResponse

\* C13: a resolver invoked with a source that is not of the shape it expects
\* returns the empty value with no error; it does not evaluate the
\* federation gate and the connector receives no call.
MalformedSourceDefault ==
    MalformedSource =>
        /\ \A f \in ResolvedFields :
              /\ ~resolved[f].r.panic
              /\ resolved[f].r.value = EmptyValue(f)
              /\ resolved[f].r.err = Nil
              /\ resolved[f].r.gate = "none"
              /\ resolved[f].r.calls = <<>>
        /\ calls = NoCalls
        /\ ~panicked

\* A Key resolved on a source that holds a local reference but is a Thing:
\* its parent and its uuid have both been resolved.
MalformedSourceDefaultWitness ==
    /\ objType = "Key"
    /\ IsThing(source)
    /\ source.Key # Nil
    /\ {"parent", "uuid"} \subseteq ResolvedFields
    /\ resolved["parent"].r.value = ZeroKeyTokenGetResponse

\* C14: no resolution issues a forwarded remote request (doRequest is never
\* invoked): every I/O entry of every resolution is a connector operation,
\* the connector's tally is exactly those entries, and only root fetches and
\* references whose origin is this node's own address reach the connector.
NoCrossNodeTraffic ==
    /\ \A f \in ResolvedFields :
          /\ \A i \in 1..Len(resolved[f].r.calls) :
                resolved[f].r.calls[i].op \in ConnectorOps
          /\ resolved[f].r.calls # <<>> =>
                \/ f \in RootFields
                \/ f \in CrossRefFields /\ IsLocal(CrefOf(f))
    /\ calls = CallsMadeBy(ResolvedFields)

\* An ObjectSubject whose object is local and was fetched and whose subject
\* lives on the other node and was denied without any I/O.
NoCrossNodeTrafficWitness ==
    /\ objType = "ObjectSubject"
    /\ IsObjectSubject(source)
    /\ {"object", "subject"} \subseteq ResolvedFields
    /\ IsLocal(source.Object)
    /\ Len(resolved["object"].r.calls) = 1
    /\ IsRemote(source.Subject)
    /\ resolved["subject"].r.gate = "Denied"
    /\ resolved["subject"].r.calls = <<>>

----------------------------------------------------------------------------
(* Properties of GetSubQuery *)

\* The structure of a selection list: its field names, their nesting and
\* their order, without what GetSubQuery does not write (aliases).
RECURSIVE Structure(_)
Structure(sels) ==
    [i \in 1..Len(sels) |->
        IF sels[i].SelectionSet = Nil THEN LeafField(sels[i].Name)
        ELSE NestedField(sels[i].Name, Structure(sels[i].SelectionSet.Selections))]

\* C8: reading the string of GetSubQuery back gives a selection list with
\* the field names, nesting and order of the one passed in, and its
\* reprojection is the same string again.
ReprojectionRoundTrip ==
    pc = "reparsed" =>
        /\ reparsed.ok
        /\ reparsed.sels = Structure(selections)
        /\ GetSubQuery(reparsed.sels) = collectQuery

ScenarioD ==
    <<LeafField(NameUuid),
      NestedField(NameKey, <<LeafField(NameUuid), LeafField(NameToken)>>)>>

ReprojectionRoundTripWitness ==
    /\ pc = "reparsed"
    /\ selections = ScenarioD
    /\ reparsed.sels[2].SelectionSet.Selections[2].Name = NameToken

\* The tokens of a selection list in depth-first, left-to-right order.
RECURSIVE FieldTokens(_)
FieldTokens(sels) ==
    IF sels = <<>> THEN <<>>
    ELSE <<Head(sels).Name>>
         \o (IF Head(sels).SelectionSet = Nil THEN <<>>
             ELSE <<<<"{">>>> \o FieldTokens(Head(sels).SelectionSet.Selections)
                  \o <<<<"}">>>>)
         \o FieldTokens(Tail(sels))

\* An opening brace follows the last character of a name after one space.
BraceAfterOneSpace(chars) ==
    \A i \in 1..Len(chars) :
        chars[i] = "{" =>
            /\ i > 2
            /\ chars[i - 1] = " "
            /\ chars[i - 2] \notin Ignored \cup Punctuators

\* C9: the string holds every field name in depth-first, left-to-right
\* order, none dropped or moved, each nested list in braces right after its
\* field name and one space; for { uuid key { uuid token } } the tokens are
\* uuid, key, {, uuid, token, }.
ReprojectionShape ==
    pc # "start" =>
        /\ Tokenize(collectQuery) = FieldTokens(selections)
        /\ BraceAfterOneSpace(collectQuery)
        /\ selections = ScenarioD =>
              Tokenize(collectQuery) =
                  <<NameUuid, NameKey, <<"{">>, NameUuid, NameToken, <<"}">>>>

ReprojectionShapeWitness ==
    /\ pc = "projected"
    /\ selections = ScenarioD
    /\ collectQuery = <<" ", "u", "u", "i", "d", " ", "k", "e", "y", " ", "{", " ",
                        " ", "u", "u", "i", "d", " ", "t", "o", "k", "e", "n",
                        " ", "}", " ">>

====
